---- MODULE Spec2Model ----
(***************************************************************************)
(* The load generator of src/lib/io/load.c: the pacing engine fr_load_t,   *)
(* its timer handler load_timer(), and the entry points start(), stop()    *)
(* and have_reply().                                                       *)
(*                                                                         *)
(* Time is kept in clock ticks, NSEC ticks to the second, so that every    *)
(* formula of the code that mentions NSEC is computed as the code computes *)
(* it.  All 32 and 64 bit quantities stay far below their widths within    *)
(* the bounds of the model, so no operation wraps.                         *)
(***************************************************************************)
EXTENDS Integers, Sequences, FiniteSets, TLC

\* ---------------------------------------------------------------- bounds
NSEC == 4          \* clock ticks per second (resolution of the model clock)
MaxTime == 8       \* the clock stops advancing here
MaxSent == 6       \* no tick is taken that would count more requests than this
MaxPps == 4        \* no tick is taken that would raise pps above this

\* ------------------------------------------------------------- constants
IBETA == 4
IALPHA == 8

INIT == "INIT"
SENDING == "SENDING"
GATED == "GATED"
DRAINING == "DRAINING"

FR_LOAD_CONTINUE == "CONTINUE"
FR_LOAD_DONE == "DONE"

\* --------------------------------------------------------------- inputs
\* The configurations handed to fr_load_generator_create(); 0 selects the
\* default of a field (or "no limit" for max_pps).
RawConfigs ==
    [start_pps : {0, 2}, max_pps : {0, 1, 2}, step : {0, 1}, duration : {0, 1},
     milliseconds : {0, 2000}, parallel : {0, 2}]

\* The clock readings at which the caller may start the engine.
StartTimes == {0, 1}

VARIABLES
    l,          \* the fr_load_t
    now,        \* the clock, fr_time()
    timers,     \* the timer facility: due times of the registered timers
    inflight,   \* inflight[t]: requests handed to the callback at time t, no reply yet
    callbacks,  \* number of invocations of the send callback so far
    ndone,      \* number of times have_reply() returned FR_LOAD_DONE
    trapped,    \* the process was killed by a division by zero
    stopped,    \* stop() cancelled a timer that no tick has re-armed since
    armfail,    \* arming the timer has failed in some tick
    last        \* what the last call did

vars == <<l, now, timers, inflight, callbacks, ndone, trapped, stopped, armfail, last>>

Times == [i \in 0..7 |-> 0]

ZeroStats ==
    [sent |-> 0, received |-> 0, max_backlog |-> 0, backlog_ema |-> 0, blocked |-> FALSE,
     rtt |-> 0, rttvar |-> 0, pps |-> 0, pps_accepted |-> 0,
     start |-> 0, end |-> 0, last_send |-> 0, times |-> Times]

\* fr_load_generator_create(): a zeroed engine bound to the config, defaults applied.
fr_load_generator_create(config) ==
    [state |-> INIT,
     config |-> [config EXCEPT
                   !.start_pps = IF config.start_pps = 0 THEN 1 ELSE config.start_pps,
                   !.milliseconds = IF config.milliseconds = 0 THEN 1000 ELSE config.milliseconds,
                   !.parallel = IF config.parallel = 0 THEN 1 ELSE config.parallel],
     stats |-> ZeroStats,
     step_start |-> 0, step_end |-> 0, step_received |-> 0,
     pps |-> 0, delta |-> 0, count |-> 0, header |-> FALSE, next |-> 0,
     ev |-> FALSE]

\* ------------------------------------------------------- pure functions
DIFF(rtt, t) == IF rtt < t THEN t - rtt ELSE rtt - t
RTTVAR(rtt, rttvar, t) == (((IBETA - 1) * rttvar) + DIFF(rtt, t)) \div IBETA
RTT(old, new) == (new + ((IALPHA - 1) * old)) \div IALPHA

\* The two estimators after a reply of latency t, in the other order: rtt
\* first, then rttvar from the new rtt.
Estimate_RttFirst(rtt, rttvar, t) ==
    [rttvar |-> RTTVAR(RTT(rtt, t), rttvar, t), rtt |-> RTT(rtt, t)]

\* The two estimators after a reply of latency t, as have_reply() updates
\* them: rttvar from the rtt it finds, then rtt.
Estimate(rtt, rttvar, t) ==
    [rttvar |-> RTTVAR(rtt, rttvar, t), rtt |-> RTT(rtt, t)]

\* The smoothed backlog of load_timer().
BacklogEma(backlog, ema, pps) ==
    (((backlog - ema) * 2) + ((pps + 1) * ema)) \div (pps + 1)

\* The admission test of load_timer(): TRUE keeps sending, FALSE gates.
Admit_NonStrict(ema, pps, milliseconds) == (ema * 1000) <= (pps * milliseconds)

Admit(ema, pps, milliseconds) == (ema * 1000) < (pps * milliseconds)

\* The delay handed to the timer when sending.
TimerDelay_Unclamped(next, tnow) == next - tnow

TimerDelay(next, tnow) == IF next < tnow THEN 0 ELSE next - tnow

\* The histogram bucket of a latency t; nsec is the number of clock ticks per second.
\* The code's literals 1000 .. 100000000 are nsec / 10^6 .. nsec / 10.
Bucket_Inclusive(t, nsec) ==
    IF t <= nsec \div 1000000 THEN 0
    ELSE IF t <= nsec \div 100000 THEN 1
    ELSE IF t <= nsec \div 10000 THEN 2
    ELSE IF t <= nsec \div 1000 THEN 3
    ELSE IF t <= nsec \div 100 THEN 4
    ELSE IF t <= nsec \div 10 THEN 5
    ELSE IF t <= nsec THEN 6
    ELSE 7

Bucket(t, nsec) ==
    IF t < nsec \div 1000000 THEN 0
    ELSE IF t < nsec \div 100000 THEN 1
    ELSE IF t < nsec \div 10000 THEN 2
    ELSE IF t < nsec \div 1000 THEN 3
    ELSE IF t < nsec \div 100 THEN 4
    ELSE IF t < nsec \div 10 THEN 5
    ELSE IF t < nsec THEN 6
    ELSE 7

\* What have_reply() does to the statistics with the latency t of a reply:
\* the estimators, the count of replies and the histogram.
ReplyStats(stats, t, nsec) ==
    LET e == Estimate(stats.rtt, stats.rttvar, t)
    IN  [stats EXCEPT !.rttvar = e.rttvar,
                      !.rtt = e.rtt,
                      !.received = @ + 1,
                      !.times[Bucket(t, nsec)] = @ + 1]

\* ------------------------------------------------------------ load_timer
\* One run of load_timer(el, tnow, l0).  armOK: whether fr_event_timer_in()
\* succeeds if it is called.  The result holds the engine afterwards, the
\* number of callback invocations, what happened to the timer ("none", "ok",
\* "fail"), and the values the admission decision was taken on.
\* The requests counted as sent at the head of a tick.
CountSent_Forgotten(sent, count) == sent

CountSent(sent, count) == sent + count

\* The number of requests the admission decision queues.
Count_Parallel(sending, parallel) == parallel

Count(sending, parallel) == IF sending THEN parallel ELSE 1

\* The high-water mark of the backlog.
MaxBacklog_Current(backlog, max_backlog) == backlog

MaxBacklog(backlog, max_backlog) ==
    IF backlog > max_backlog THEN backlog ELSE max_backlog

\* The rate of the next ramp step.
StepPps(pps, step) == pps + step

\* The sticky flag after the admission decision.
Blocked_Cleared(sending, blocked) == FALSE

Blocked(sending, blocked) == IF sending THEN FALSE ELSE blocked

\* The state after the admission decision and the step rollover.
StateAfterStep_NoLimit(sending, roll, pps1, max_pps) ==
    IF sending THEN SENDING ELSE GATED

StateAfterStep(sending, roll, pps1, max_pps) ==
    IF roll /\ max_pps # 0 /\ pps1 > max_pps THEN DRAINING
    ELSE IF sending THEN SENDING ELSE GATED

\* Whether the tick arms the timer, and how that ends.
Arm_Always(state, armOK) == IF armOK THEN "ok" ELSE "fail"

Arm_UnlessGated(state, armOK) ==
    IF state = GATED THEN "none" ELSE IF armOK THEN "ok" ELSE "fail"

Arm(state, armOK) ==
    IF state # SENDING THEN "none" ELSE IF armOK THEN "ok" ELSE "fail"

load_timer(l0, tnow, armOK) ==
    LET config == l0.config
        sent1 == CountSent(l0.stats.sent, l0.count)
        backlog == sent1 - l0.stats.received
        max1 == MaxBacklog(backlog, l0.stats.max_backlog)
        ema1 == BacklogEma(backlog, l0.stats.backlog_ema, l0.pps)
        sending == Admit(ema1, l0.pps, config.milliseconds)
        count1 == Count(sending, config.parallel)
        next1 == IF sending THEN l0.next + l0.delta ELSE tnow + l0.delta
        delay == IF sending THEN TimerDelay(next1, tnow) ELSE l0.delta
        roll == next1 >= l0.step_end
        pps1 == IF roll THEN StepPps(l0.pps, config.step) ELSE l0.pps
        state2 == StateAfterStep(sending, roll, pps1, config.max_pps)
        arm == Arm(state2, armOK)
        l1 == [l0 EXCEPT
                 !.state = IF arm = "fail" THEN DRAINING ELSE state2,
                 !.stats.sent = sent1,
                 !.stats.max_backlog = max1,
                 !.stats.backlog_ema = ema1,
                 !.stats.last_send = tnow,
                 !.stats.blocked = Blocked(sending, l0.stats.blocked),
                 !.stats.pps = IF roll THEN pps1 ELSE l0.stats.pps,
                 !.count = count1,
                 !.next = next1,
                 !.step_start = IF roll THEN next1 ELSE l0.step_start,
                 !.step_end = IF roll THEN next1 + config.duration * NSEC ELSE l0.step_end,
                 !.step_received = IF roll THEN l0.stats.received ELSE l0.step_received,
                 !.pps = pps1,
                 !.delta = IF roll THEN (NSEC * config.parallel) \div pps1 ELSE l0.delta,
                 !.ev = IF arm = "ok" THEN TRUE ELSE l0.ev]
    IN  [l |-> l1,
         cb |-> IF arm = "fail" THEN 0 ELSE count1,
         arm |-> arm,
         delay |-> delay,
         pps0 |-> l0.pps,
         admit |-> IF sending THEN SENDING ELSE GATED]

\* ------------------------------------------------------------ have_reply
\* The accepted rate of fr_load_generator_have_reply().  The divisor is a
\* signed 64 bit time difference that the division converts to unsigned: a
\* negative one is a huge number and the quotient is 0.  A divisor of 0 is
\* undefined behaviour: where it does not trap, the quotient is `undef`.
PpsAccepted(received, step_received, divisor, undef) ==
    IF divisor > 0 THEN ((received - step_received) * NSEC) \div divisor
    ELSE IF divisor < 0 THEN 0
    ELSE undef

\* The reply value of have_reply() in state DRAINING.
DrainReply_OffByOne(received, sent) ==
    IF received <= sent THEN FR_LOAD_CONTINUE ELSE FR_LOAD_DONE

DrainReply(received, sent) == IF received < sent THEN FR_LOAD_CONTINUE ELSE FR_LOAD_DONE

\* One run of fr_load_generator_have_reply(l0, request_time) at time tnow that
\* does not trap.  armOK is handed to the tick taken when gated.
fr_load_generator_have_reply(l0, tnow, request_time, armOK, undef) ==
    LET t == tnow - request_time
        received1 == l0.stats.received + 1
        l1 == [l0 EXCEPT
                 !.stats = [ReplyStats(l0.stats, t, NSEC) EXCEPT
                              !.pps_accepted =
                                  PpsAccepted(received1, l0.step_received,
                                              tnow - l0.step_start, undef)]]
        none == [cb |-> 0, arm |-> "none", delay |-> 0, pps0 |-> l0.pps, admit |-> "none"]
    IN  IF l1.state = SENDING
        THEN [l |-> l1, ret |-> FR_LOAD_CONTINUE] @@ none
        ELSE IF l1.state = GATED
        THEN LET r == load_timer([l1 EXCEPT !.stats.blocked = TRUE], tnow, armOK)
             IN  [ret |-> FR_LOAD_CONTINUE] @@ r
        ELSE IF l1.state # DRAINING
        THEN [l |-> l1, ret |-> FR_LOAD_CONTINUE] @@ none
        ELSE IF DrainReply(l1.stats.received, l1.stats.sent) = FR_LOAD_CONTINUE
        THEN [l |-> l1, ret |-> FR_LOAD_CONTINUE] @@ none
        ELSE [l |-> [l1 EXCEPT !.stats.end = tnow], ret |-> FR_LOAD_DONE] @@ none

\* ------------------------------------------------------------------ stop
\* fr_load_generator_stop(): delete the timer the handle l->ev names, if any.
fr_load_generator_stop_KeepsHandle(l0, timers0) ==
    IF ~l0.ev
    THEN [l |-> l0, timers |-> timers0]
    ELSE [l |-> l0, timers |-> SubSeq(timers0, 1, Len(timers0) - 1)]

fr_load_generator_stop(l0, timers0) ==
    IF ~l0.ev
    THEN [l |-> l0, timers |-> timers0]
    ELSE [l |-> [l0 EXCEPT !.ev = FALSE], timers |-> SubSeq(timers0, 1, Len(timers0) - 1)]

\* ---------------------------------------------------------- stats_sprint
\* The header line: the column names in their order.
StatsHeader ==
    <<"time", "last_packet", "rtt", "rttvar", "pps", "pps_accepted", "sent", "received",
      "ema_backlog", "max_backlog", "usec", "10us", "100us", "ms", "10ms", "100ms", "s", "10s">>

\* A data row: the two times are the floating point quotients by NSEC, kept as
\* <<numerator, NSEC>>; the other columns are the integers printed.
StatsRow(l0, tnow) ==
    LET st == l0.stats
    IN  <<<<tnow - st.start, NSEC>>, <<st.last_send - st.start, NSEC>>,
          st.rtt, st.rttvar, st.pps, st.pps_accepted, st.sent, st.received,
          st.backlog_ema, st.max_backlog>> \o [i \in 1..8 |-> st.times[i - 1]]

\* fr_load_generator_stats_sprint(): the engine afterwards and the line written.
fr_load_generator_stats_sprint_FlagToggles(l0, tnow) ==
    IF ~l0.header
    THEN [l |-> [l0 EXCEPT !.header = TRUE], line |-> StatsHeader]
    ELSE [l |-> [l0 EXCEPT !.header = FALSE], line |-> StatsRow(l0, tnow)]

fr_load_generator_stats_sprint(l0, tnow) ==
    IF ~l0.header
    THEN [l |-> [l0 EXCEPT !.header = TRUE], line |-> StatsHeader]
    ELSE [l |-> l0, line |-> StatsRow(l0, tnow)]

\* ----------------------------------------------------------------- start
\* The fields fr_load_generator_start() sets before its bootstrap tick.
StartFields(l0, tnow) ==
    LET config == l0.config
        delta == (NSEC * config.parallel) \div config.start_pps
    IN  [l0 EXCEPT
           !.stats.start = tnow,
           !.step_start = tnow,
           !.step_end = tnow + config.duration * NSEC,
           !.pps = config.start_pps,
           !.stats.pps = config.start_pps,
           !.delta = delta,
           !.next = tnow + delta,
           !.count = config.parallel]

\* The value fr_load_generator_start() returns after a bootstrap tick whose
\* timer was armed as `arm` says.
StartReturn(arm) == 0

\* ------------------------------------------------------------ the system
Remove(s, i) == SubSeq(s, 1, i - 1) \o SubSeq(s, i + 1, Len(s))

\* The bounds of the model: a tick is taken only while the counters it
\* raises stay within them.
TickInBounds(l0) ==
    /\ l0.stats.sent + l0.count <= MaxSent
    /\ l0.pps + l0.config.step <= MaxPps

NoCall == [op |-> "none", at |-> 0, state0 |-> INIT, blocked0 |-> FALSE, pps0 |-> 0, ret |-> "none",
           cb |-> 0, arm |-> "none", delay |-> 0, admit |-> "none"]

\* What a call did: r is the result of load_timer() or have_reply().
Call(op, l0, ret, r) ==
    [op |-> op, at |-> now, state0 |-> l0.state, blocked0 |-> l0.stats.blocked, pps0 |-> r.pps0,
     ret |-> ret, cb |-> r.cb, arm |-> r.arm, delay |-> r.delay, admit |-> r.admit]

\* The effect of a tick's result r on the surroundings of the engine.
Surroundings(r, timers0) ==
    /\ l' = r.l
    /\ timers' = IF r.arm = "ok" THEN Append(timers0, now + r.delay) ELSE timers0
    /\ inflight' = [inflight EXCEPT ![now] = @ + r.cb]
    /\ callbacks' = callbacks + r.cb
    /\ stopped' = IF r.arm = "ok" THEN FALSE ELSE stopped
    /\ armfail' = (armfail \/ r.arm = "fail")

Init ==
    /\ l \in {fr_load_generator_create(c) : c \in RawConfigs}
    /\ now \in StartTimes
    /\ timers = <<>>
    /\ inflight = [t \in 0..MaxTime |-> 0]
    /\ callbacks = 0
    /\ ndone = 0
    /\ trapped = FALSE
    /\ stopped = FALSE
    /\ armfail = FALSE
    /\ last = NoCall

\* The clock advances; the model follows it from the start of the engine on.
Advance ==
    /\ ~trapped
    /\ l.state # INIT
    /\ now < MaxTime
    /\ now' = now + 1
    /\ UNCHANGED <<l, timers, inflight, callbacks, ndone, trapped, stopped, armfail, last>>

\* The caller starts the engine, once.
Start ==
    /\ ~trapped
    /\ l.state = INIT
    /\ \E armOK \in BOOLEAN :
         LET l0 == StartFields(l, now)
             r == load_timer(l0, now, armOK)
         IN  /\ TickInBounds(l0)
             /\ Surroundings(r, timers)
             /\ last' = Call("start", l, StartReturn(r.arm), r)
    /\ UNCHANGED <<now, ndone, trapped>>

\* The timer facility runs a due timer: it releases the handle, then calls
\* load_timer().
TimerFire ==
    /\ ~trapped
    /\ \E i \in 1..Len(timers) : \E armOK \in BOOLEAN :
         LET l0 == [l EXCEPT !.ev = FALSE]
             r == load_timer(l0, now, armOK)
         IN  /\ timers[i] <= now
             /\ TickInBounds(l0)
             /\ Surroundings(r, Remove(timers, i))
             /\ last' = Call("timer", l, "none", r)
    /\ UNCHANGED <<now, ndone, trapped>>

\* The caller reports the reply to a request it was handed at time rt.  It
\* reports each request at most once.
HaveReply ==
    /\ ~trapped
    /\ \E rt \in 0..MaxTime : \E armOK \in BOOLEAN : \E trap \in BOOLEAN :
         /\ inflight[rt] > 0
         /\ rt < now
         /\ l.state = GATED => TickInBounds(l)
         /\ IF trap
            THEN /\ now - l.step_start = 0
                 /\ trapped' = TRUE
                 /\ UNCHANGED <<l, timers, inflight, callbacks, ndone, stopped, armfail, last>>
            ELSE LET r == fr_load_generator_have_reply(l, now, rt, armOK, 0)
                 IN  /\ l' = r.l
                     /\ timers' = IF r.arm = "ok" THEN Append(timers, now + r.delay)
                                  ELSE timers
                     /\ inflight' = [inflight EXCEPT ![rt] = @ - 1, ![now] = @ + r.cb]
                     /\ callbacks' = callbacks + r.cb
                     /\ stopped' = IF r.arm = "ok" THEN FALSE ELSE stopped
                     /\ armfail' = (armfail \/ r.arm = "fail")
                     /\ ndone' = IF r.ret = FR_LOAD_DONE THEN ndone + 1 ELSE ndone
                     /\ last' = Call("have_reply", l, r.ret, r)
                     /\ UNCHANGED trapped
    /\ UNCHANGED now

\* The caller stops the engine.
Stop ==
    /\ ~trapped
    /\ LET r == fr_load_generator_stop(l, timers)
       IN  /\ l' = r.l
           /\ timers' = r.timers
           /\ stopped' = IF l.ev THEN TRUE ELSE stopped
           /\ last' = [NoCall EXCEPT !.op = "stop", !.at = now, !.state0 = l.state, !.pps0 = l.pps,
                                     !.blocked0 = l.stats.blocked, !.ret = 0]
    /\ UNCHANGED <<now, inflight, callbacks, ndone, trapped, armfail>>

Next == Advance \/ Start \/ TimerFire \/ HaveReply \/ Stop

Spec == Init /\ [][Next]_vars

\* The caller formats a line of statistics.
StatsSprint ==
    /\ ~trapped
    /\ LET r == fr_load_generator_stats_sprint(l, now)
       IN  /\ l' = r.l
           /\ last' = [NoCall EXCEPT !.op = "stats_sprint", !.at = now, !.state0 = l.state,
                                     !.pps0 = l.pps, !.blocked0 = l.stats.blocked,
                                     !.ret = r.line]
    /\ UNCHANGED <<now, timers, inflight, callbacks, ndone, trapped, stopped, armfail>>

\* The engine with a caller that also formats its statistics.  The formatter
\* reads no configuration, so fewer of them are run.
StatsConfigs == {c \in RawConfigs : c.duration = 1 /\ c.milliseconds = 0}

InitStats == Init /\ l \in {fr_load_generator_create(c) : c \in StatsConfigs}

NextStats == Advance \/ Start \/ TimerFire \/ HaveReply \/ Stop \/ StatsSprint

SpecStats == InitStats /\ [][NextStats]_vars

\* ----------------------------------------------------- latencies in ns
\* The statistics of have_reply() under the clock of the code, in which a
\* second is 10^9 ns: replies of chosen latencies are reported to an engine
\* that is not sending.
NsPerSec == 10^9

MaxSamples == 3    \* number of replies reported

\* Latencies around the bounds of the histogram and the divisors of the estimators.
Latencies == {0, 7, 8, 9, 32} \cup {10^k - 1 : k \in 3..9} \cup {10^k : k \in 3..9}

\* The times of the code are 64 bits wide and those of the model 32: a reply
\* is reported when neither order of the two updates leaves the 32 bits.
MaxInt == (2^30 - 1) + 2^30

InRange(rtt, rttvar, t) ==
    LET m == IF rtt < t THEN t ELSE rtt
    IN  /\ rtt <= (MaxInt - t) \div (IALPHA - 1)
        /\ rttvar <= (MaxInt - m) \div (IBETA - 1)

\* A reply of latency t.  last.ret keeps t and, for comparison, the
\* estimators that updating rtt first would have produced so far.
Reply ==
    /\ l.stats.received < MaxSamples
    /\ \E t \in Latencies :
         LET alt0 == IF last.op = "reply" THEN last.ret ELSE [t |-> 0, rtt |-> 0, rttvar |-> 0]
             alt == Estimate_RttFirst(alt0.rtt, alt0.rttvar, t)
         IN  /\ InRange(l.stats.rtt, l.stats.rttvar, t)
             /\ InRange(alt0.rtt, alt0.rttvar, t)
             /\ l' = [l EXCEPT !.stats = ReplyStats(l.stats, t, NsPerSec)]
             /\ last' = [NoCall EXCEPT !.op = "reply", !.at = now,
                                       !.ret = [t |-> t, rtt |-> alt.rtt, rttvar |-> alt.rttvar]]
    /\ UNCHANGED <<now, timers, inflight, callbacks, ndone, trapped, stopped, armfail>>

InitLatency ==
    /\ Init
    /\ now = 0
    /\ l = fr_load_generator_create([start_pps |-> 0, max_pps |-> 0, step |-> 0, duration |-> 0,
                                     milliseconds |-> 0, parallel |-> 0])

NextLatency == Reply

SpecLatency == InitLatency /\ [][NextLatency]_vars

TypeOK ==
    /\ l.state \in {INIT, SENDING, GATED, DRAINING}
    /\ now \in 0..MaxTime
    /\ callbacks \in Nat
    /\ ndone \in Nat

\* ---------------------------------------------------------------- claims
\* A tick was part of the last call.
Ticked == last.admit # "none"

\* C1: in every reachable state received <= sent, the caller reporting each
\* request handed to the send callback at most once.
C1_ReceivedLeSent == l.stats.received <= l.stats.sent

\* C1 witness: replies have caught up with a run of several sends.
C1_Witness ==
    /\ last.op = "have_reply"
    /\ l.stats.received = l.stats.sent
    /\ l.stats.sent >= 3

\* C2: a have_reply() that returns, returns DONE only in state DRAINING on the
\* reply that brings received up to sent, and sets stats.end then; in every
\* other case it returns CONTINUE and stats.end stays unset; DONE is returned
\* at most once.
C2_DoneOnlyWhenDrained ==
    /\ ndone <= 1
    /\ (ndone = 0) = (l.stats.end = 0)
    /\ ndone = 1 =>
         /\ l.state = DRAINING
         /\ l.stats.received = l.stats.sent
         /\ l.stats.end \in 1..now
    /\ last.op = "have_reply" =>
         /\ last.ret \in {FR_LOAD_CONTINUE, FR_LOAD_DONE}
         /\ (last.ret = FR_LOAD_DONE) =
              (last.state0 = DRAINING /\ l.stats.received = l.stats.sent)
         /\ last.ret = FR_LOAD_DONE => l.stats.end = last.at
         /\ last.ret = FR_LOAD_CONTINUE => l.stats.end = 0

\* C2 witness: DONE was returned after replies that returned CONTINUE.
C2_Witness ==
    /\ last.op = "have_reply"
    /\ last.ret = FR_LOAD_DONE
    /\ l.stats.received >= 2
    /\ l.stats.end > 0

\* C3 as stated: one timer while SENDING, none while GATED or DRAINING, stop()
\* or not.
C3_Original ==
    /\ l.state = SENDING => Len(timers) = 1
    /\ l.state \in {GATED, DRAINING} => Len(timers) = 0

\* C3 amended: at most one timer is outstanding, and the handle l->ev names it;
\* none while GATED or DRAINING; while SENDING exactly one, unless stop() has
\* cancelled it, and then none.
C3_TimerWhileSending ==
    /\ Len(timers) <= 1
    /\ l.ev = (Len(timers) = 1)
    /\ l.state \in {INIT, GATED, DRAINING} => Len(timers) = 0
    /\ l.state = SENDING /\ ~stopped => Len(timers) = 1
    /\ l.state = SENDING /\ stopped => Len(timers) = 0
    /\ stopped => l.state = SENDING

\* C3 witness: stop() has cancelled the timer of a sending engine.
C3_Witness ==
    /\ l.state = SENDING
    /\ stopped
    /\ last.op = "stop"
    /\ Len(timers) = 0

\* C4 as stated: a tick whose timer cannot be armed leaves the engine DRAINING
\* without a send callback, and once every request handed to the callback has
\* its reply, have_reply() returns DONE.
C4_Original ==
    /\ last.arm = "fail" => l.state = DRAINING /\ last.cb = 0
    /\ armfail => l.state = DRAINING
    /\ armfail /\ last.op = "have_reply" /\ last.state0 = DRAINING
         /\ l.stats.received = callbacks =>
         last.ret = FR_LOAD_DONE

\* C5 as stated: start() reports failure exactly when its bootstrap tick cannot
\* arm the timer, and then nothing was sent or counted as sent.
C5_Original ==
    last.op = "start" =>
        /\ (last.ret # 0) = (last.arm = "fail")
        /\ last.arm = "fail" =>
             /\ l.state = DRAINING
             /\ callbacks = 0
             /\ l.stats.sent = 0

\* C6: pps never decreases, and once the state is DRAINING neither pps nor the
\* state changes again.
C6_PpsMonotone ==
    [][/\ l'.pps >= l.pps
       /\ l'.stats.pps >= l.stats.pps
       /\ l.state = DRAINING =>
            /\ l'.state = DRAINING
            /\ l'.pps = l.pps
            /\ l'.stats.pps = l.stats.pps]_vars

\* C6 witness: a reply was handled in DRAINING after the ramp had raised pps.
C6_Witness ==
    /\ l.state = DRAINING
    /\ l.pps > l.config.start_pps + 1
    /\ last.op = "have_reply"
    /\ last.state0 = DRAINING

\* C7 as stated: with max_pps = start_pps and parallel = 1, start() sends one
\* request and leaves DRAINING, and the reply to it returns DONE.
C7_Original ==
    l.config.max_pps = l.config.start_pps /\ l.config.parallel = 1 =>
        /\ last.op = "start" => last.cb = 1 /\ l.state = DRAINING
        /\ last.op = "have_reply" => last.ret = FR_LOAD_DONE /\ l.stats.end = last.at

\* The first tick rolls the step over: its next (start + 2 * delta when it
\* keeps sending, start + delta when it gates) is not before the end of the
\* first step, start + duration seconds.
C7_FirstTickRolls ==
    LET c == l.config
        delta == (NSEC * c.parallel) \div c.start_pps
        ema == (2 * c.parallel) \div (c.start_pps + 1)
        first == IF ema * 1000 < c.start_pps * c.milliseconds THEN 2 * delta ELSE delta
    IN  first >= c.duration * NSEC

C7_Scenario ==
    /\ l.config.max_pps = l.config.start_pps
    /\ l.config.parallel = 1
    /\ l.config.step >= 1
    /\ C7_FirstTickRolls

\* C7 amended: with max_pps = start_pps, parallel = 1, step >= 1 and a first
\* tick that rolls the step over, start() invokes the send callback exactly
\* once and leaves the state DRAINING, and the have_reply() for that request
\* returns nothing but DONE, with stats.end set to the time of the call.
C7_Termination ==
    C7_Scenario =>
        /\ callbacks <= 1
        /\ last.op = "start" =>
             /\ last.cb = 1
             /\ l.state = DRAINING
             /\ l.stats.sent = 1
             /\ Len(timers) = 0
        /\ last.op = "have_reply" =>
             /\ last.ret = FR_LOAD_DONE
             /\ l.stats.end = last.at
             /\ l.stats.received = 1

\* C7 witness: the scenario has run to its DONE.
C7_Witness ==
    /\ C7_Scenario
    /\ last.op = "have_reply"
    /\ last.ret = FR_LOAD_DONE
    /\ callbacks = 1
    /\ l.stats.end > 0

\* C8: a tick keeps SENDING (count = parallel, blocked cleared) when
\* backlog_ema * 1000 < pps * milliseconds, with the pps from before the step
\* rollover of that tick, and gates (count = 1) otherwise; with pps = 100 and
\* milliseconds = 1000 the boundary is ema = 100, which gates.
C8_Admission ==
    /\ \A ema \in 0..200 : Admit(ema, 100, 1000) = (ema < 100)
    /\ Ticked =>
         LET sending == l.stats.backlog_ema * 1000 < last.pps0 * l.config.milliseconds
         IN  /\ last.admit = IF sending THEN SENDING ELSE GATED
             /\ l.state \in {last.admit, DRAINING}
             /\ sending => l.count = l.config.parallel /\ ~l.stats.blocked
             /\ ~sending => l.count = 1

\* C8 witness: a tick gated on the old pps where the pps after its step
\* rollover would have kept sending.
C8_Witness ==
    /\ Ticked
    /\ last.admit = GATED
    /\ l.pps > last.pps0
    /\ l.stats.backlog_ema * 1000 < l.pps * l.config.milliseconds
    /\ l.stats.backlog_ema * 1000 = last.pps0 * l.config.milliseconds

\* C9 as stated: once blocked is true it stays true.
C9_Original == [][l.stats.blocked => l'.stats.blocked]_vars

\* C9 amended: blocked is true after a reply handled while GATED whose tick
\* gates again, and once true it stays true until a tick decides SENDING, which
\* clears it.
C9_BlockedUntilSending ==
    /\ [](last.op = "have_reply" /\ last.state0 = GATED /\ last.admit = GATED
            => l.stats.blocked)
    /\ [][l.stats.blocked /\ ~l'.stats.blocked => last'.admit = SENDING]_vars

\* C9 witness: a tick that decided SENDING has cleared a blocked that was true.
C9_Witness ==
    /\ last.blocked0
    /\ last.admit = SENDING
    /\ ~l.stats.blocked

\* C10: stop() leaves no timer outstanding, changes nothing but the timer
\* handle, and a second stop() changes nothing at all.
C10_StopIdempotent ==
    [][last'.op = "stop" /\ last'.at = now /\ now' = now =>
         /\ l' = [l EXCEPT !.ev = FALSE]
         /\ timers' = <<>>
         /\ <<inflight', callbacks', ndone'>> = <<inflight, callbacks, ndone>>
         /\ fr_load_generator_stop(l', timers') = [l |-> l', timers |-> timers']]_vars

\* C10 witness: stop() has cancelled an armed timer.
C10_Witness ==
    /\ last.op = "stop"
    /\ stopped
    /\ ~l.ev
    /\ timers = <<>>
    /\ l.stats.sent > l.stats.received

\* C11: sent, received and max_backlog never decrease, and max_backlog is at
\* least the backlog sent - received in every reachable state.
C11_MonotonicCounters ==
    /\ [](l.stats.max_backlog >= l.stats.sent - l.stats.received)
    /\ [][/\ l'.stats.sent >= l.stats.sent
          /\ l'.stats.received >= l.stats.received
          /\ l'.stats.max_backlog >= l.stats.max_backlog]_vars

\* C11 witness: a tick has run while the backlog was below its high-water mark.
C11_Witness ==
    /\ Ticked
    /\ l.stats.received >= 1
    /\ l.stats.max_backlog >= 2
    /\ l.stats.max_backlog > l.stats.sent - l.stats.received

\* C12: the formatter writes the header on the first call and a data row of the
\* current values on every later call; a call changes nothing of the engine
\* but the header flag, which only the formatter sets and nothing clears.
C12_HeaderThenData ==
    /\ [][l'.header # l.header => l'.header /\ last'.op = "stats_sprint"]_vars
    /\ [][last'.op = "stats_sprint" /\ last'.at = now /\ now' = now /\ trapped' = trapped =>
            /\ l' = [l EXCEPT !.header = TRUE]
            /\ <<timers', inflight', callbacks', ndone'>> = <<timers, inflight, callbacks, ndone>>
            /\ ~l.header => last'.ret = StatsHeader
            /\ l.header =>
                 /\ Len(last'.ret) = 18
                 /\ last'.ret[1] = <<now - l.stats.start, NSEC>>
                 /\ last'.ret[2] = <<l.stats.last_send - l.stats.start, NSEC>>
                 /\ <<last'.ret[3], last'.ret[4]>> = <<l.stats.rtt, l.stats.rttvar>>
                 /\ <<last'.ret[5], last'.ret[6]>> = <<l.stats.pps, l.stats.pps_accepted>>
                 /\ <<last'.ret[7], last'.ret[8]>> = <<l.stats.sent, l.stats.received>>
                 /\ <<last'.ret[9], last'.ret[10]>> = <<l.stats.backlog_ema, l.stats.max_backlog>>
                 /\ \A i \in 0..7 : last'.ret[11 + i] = l.stats.times[i]]_vars

\* C12 witness: a data row was written after the header, with traffic to show.
C12_Witness ==
    /\ last.op = "stats_sprint"
    /\ l.header
    /\ last.ret # StatsHeader
    /\ last.ret[8] >= 1
    /\ last.ret[7] > last.ret[8]

\* C13 as stated: after every completed tick, sent is the number of send
\* callback invocations made so far.
C13_Original == Ticked => l.stats.sent = callbacks

\* C14 as stated, for a finite run: in DRAINING reached by pps exceeding
\* max_pps, once every request handed to the callback has had its reply,
\* have_reply() has returned DONE.
C14_Original ==
    /\ l.state = DRAINING
    /\ ~armfail
    /\ callbacks >= 1
    /\ l.stats.received = callbacks
    => ndone = 1

\* A reply can be handed to have_reply() now.
ReplyDue == \E rt \in 0..MaxTime : inflight[rt] > 0 /\ rt < now

\* C15 as stated: whenever have_reply() computes pps_accepted its divisor
\* now - step_start is strictly positive, so no call divides by zero.
C15_Original ==
    /\ ~trapped
    /\ ReplyDue => now - l.step_start > 0

\* C16 as stated: a have_reply() in state GATED invokes the send callback
\* exactly once, and no callback is invoked in state GATED but for a reply.
C16_Original ==
    /\ last.op = "have_reply" /\ last.state0 = GATED => last.cb = 1
    /\ last.state0 = GATED /\ last.cb > 0 => last.op = "have_reply"

\* C16 amended: a have_reply() in state GATED runs one tick, which invokes the
\* callback once if it gates again, parallel times if it decides SENDING, and
\* not at all if it then fails to arm the timer; in state GATED no callback is
\* invoked but for a reply, and a reply in another state invokes none.
C16_GatedRelease ==
    /\ last.op = "have_reply" /\ last.state0 = GATED =>
         /\ Ticked
         /\ last.cb = IF last.arm = "fail" THEN 0
                      ELSE IF last.admit = GATED THEN 1
                      ELSE l.config.parallel
    /\ last.state0 = GATED /\ last.cb > 0 => last.op = "have_reply"
    /\ last.op = "have_reply" /\ last.state0 # GATED => last.cb = 0

\* C16 witness: a reply in state GATED released a burst of parallel requests.
C16_Witness ==
    /\ last.op = "have_reply"
    /\ last.state0 = GATED
    /\ last.admit = SENDING
    /\ last.cb = 2
    /\ l.stats.received >= 2

\* C17 as stated, for the call that follows a stop() made in state SENDING or
\* GATED: it invokes no send callback and arms no timer.
C17_Original ==
    [][last.op = "stop" /\ last.state0 \in {SENDING, GATED} =>
         callbacks' = callbacks /\ timers' = timers]_vars

\* C18: a tick that decides SENDING advances next by exactly delta and hands
\* the timer the delay max(0, previous next + delta - now), never a negative
\* one.  In start() the previous next is start + delta.
C18_CatchUp ==
    [][l'.stats.sent > l.stats.sent /\ last'.admit = SENDING =>
         LET first == (NSEC * l.config.parallel) \div l.config.start_pps
             delta == IF l.state = INIT THEN first ELSE l.delta
             target == (IF l.state = INIT THEN now + first ELSE l.next) + delta
         IN  /\ l'.next = target
             /\ last'.delay >= 0
             /\ last'.delay = IF target < now THEN 0 ELSE target - now
             /\ last'.arm = "ok" => timers' = <<now + last'.delay>>]_vars

\* C18 witness: a late tick kept sending and armed the timer with no delay.
C18_Witness ==
    /\ Ticked
    /\ last.admit = SENDING
    /\ last.arm = "ok"
    /\ last.delay = 0
    /\ l.next < last.at
    /\ timers = <<last.at>>


\* C19: each reply sets rttvar' = (3*rttvar + |rtt - t|) / 4 from the rtt
\* found before the update, then rtt' = (t + 7*rtt) / 8, in integer
\* arithmetic; after the first reply the result differs from the one of
\* updating rtt first if the latency is 32 ns or more, and equals it if the
\* latency is below 8 ns.
C19_Original ==
    last.op = "reply" =>
        <<l.stats.rtt, l.stats.rttvar>> # <<last.ret.rtt, last.ret.rttvar>>

C19_OldRttFirst ==
    /\ [](l.stats.received = 1 =>
            /\ last.ret.t >= 32 => l.stats.rttvar # last.ret.rttvar
            /\ last.ret.t < 8 => l.stats.rttvar = last.ret.rttvar /\ l.stats.rtt = last.ret.rtt)
    /\ [][l'.stats.received = l.stats.received + 1 =>
            LET t == last'.ret.t
                abs == IF l.stats.rtt >= t THEN l.stats.rtt - t ELSE t - l.stats.rtt
            IN  /\ l'.stats.rttvar = (3 * l.stats.rttvar + abs) \div 4
                /\ l'.stats.rtt = (t + 7 * l.stats.rtt) \div 8]_vars

C19_Witness ==
    /\ last.op = "reply"
    /\ l.stats.received >= 2
    /\ l.stats.rtt > 0
    /\ l.stats.rttvar > last.ret.rttvar
    /\ last.ret.rttvar > 0

\* The decade of a latency: the number of bounds 10^3 .. 10^9 ns it has reached.
Decade(t) == Cardinality({k \in 3..9 : 10^k <= t})

SumTimes ==
    l.stats.times[0] + l.stats.times[1] + l.stats.times[2] + l.stats.times[3]
    + l.stats.times[4] + l.stats.times[5] + l.stats.times[6] + l.stats.times[7]

\* C20: each reply increments exactly one of the 8 histogram buckets, the
\* one whose decade holds its latency (lower bound inclusive, upper bound
\* exclusive), and leaves the other 7 unchanged; in every reachable state
\* the buckets sum to stats.received.
C20_OneBucket ==
    /\ [](SumTimes = l.stats.received)
    /\ [][/\ l'.stats.received = l.stats.received + 1 =>
               \A k \in 0..7 :
                   l'.stats.times[k] =
                       l.stats.times[k] + (IF k = Decade(last'.ret.t) THEN 1 ELSE 0)
          /\ l'.stats.received = l.stats.received => l'.stats.times = l.stats.times]_vars

C20_Witness ==
    /\ last.op = "reply"
    /\ last.ret.t = NsPerSec
    /\ l.stats.received = 3
    /\ l.stats.times[7] = 1
    /\ l.stats.times[3] = 1
    /\ l.stats.times[0] = 1
====
